---- MODULE Spec2Model ----
(***************************************************************************)
(* State-machine model of the spi-fat-fuse adapter                         *)
(* (src/src/spi-fat-fuse.c): the lazily mounted FatFs volume, the handles  *)
(* kept in fuse_file_info.fh, the directory listing protocol and the       *)
(* request handlers of spi_fat_fuse_oper.                                  *)
(*                                                                         *)
(* The FatFs engine (ff.h) and the FUSE dispatcher are the environment:    *)
(* every engine primitive returns a result code chosen from EngineRes, and *)
(* the filler callback accepts or rejects each entry it is offered.        *)
(*                                                                         *)
(* Spec      one request at a time, every handler one atomic action: the   *)
(*           mount manager and the directory handles.                      *)
(* SpecPath  the same for the handlers on paths.                           *)
(* SpecFile  the same for the file handles.                                *)
(* SpecHandle  the opens and the closes of both kinds of handle.          *)
(* SpecPure  renameHidden, FRESULT_TO_OSCODE and the timestamp conversion  *)
(*           applied to an argument.                                       *)
(* SpecMT    two request threads (fuse_main without -s); a handler is a    *)
(*           sequence of steps, one per shared access or engine call.      *)
(* SpecInv   two request threads and the invalidation of readdir.          *)
(***************************************************************************)
EXTENDS Integers, Sequences, FiniteSets, TLC

(***************************************************************************)
(* Bounds of the model                                                     *)
(***************************************************************************)
\* contexts _lazy_mount may allocate in one run
MaxCtx == 2
\* entries of the listed directory
MaxEntries == 2
\* FIL / DIR objects open and opendir may allocate in one run
MaxObj == 1
\* engine close calls on one object
MaxCloses == 2
\* characters of a path handed to renameHidden on its own
MaxPathLen == 5
\* size of the callers' buffer, char lpath[255], scaled down so that the
\* paths of MaxPathLen characters fill it
lpathsz == 5

(***************************************************************************)
(* Program constants                                                       *)
(***************************************************************************)
NULL == 0
ENOENT == 2
EINTR == 4
ENOMEM == 12
EACCES == 13
ENODEV == 19
ENFILE == 23
ENOSPC == 28
ENAMETOOLONG == 36

\* The FRESULT vocabulary of the engine (ff.h), by name.
FRESULT ==
  { "FR_OK", "FR_DISK_ERR", "FR_INT_ERR", "FR_NOT_READY", "FR_NO_FILE",
    "FR_NO_PATH", "FR_INVALID_NAME", "FR_DENIED", "FR_EXIST",
    "FR_INVALID_OBJECT", "FR_WRITE_PROTECTED", "FR_INVALID_DRIVE",
    "FR_NOT_ENABLED", "FR_NO_FILESYSTEM", "FR_MKFS_ABORTED", "FR_TIMEOUT",
    "FR_LOCKED", "FR_NOT_ENOUGH_CORE", "FR_TOO_MANY_OPEN_FILES",
    "FR_INVALID_PARAMETER" }

\* The result codes the environment draws from: success, the disk-level
\* error readdir looks for, and one other failure.
EngineRes == { "FR_OK", "FR_DISK_ERR", "FR_NOT_READY" }

\* A translator with the default row only.
FRESULT_TO_OSCODE_default(res) == IF res = "FR_OK" THEN 0 ELSE -ENOENT

FRESULT_TO_OSCODE(res) ==
  CASE res = "FR_OK" -> 0
    [] res = "FR_DISK_ERR" -> -EINTR
    [] res = "FR_INT_ERR" -> -ENOMEM
    [] res = "FR_NOT_READY" -> -EINTR
    [] res = "FR_NO_FILE" -> -ENOENT
    [] res = "FR_NO_PATH" -> -ENOENT
    [] res = "FR_INVALID_NAME" -> -ENOENT
    [] res = "FR_DENIED" -> -EACCES
    [] res = "FR_EXIST" -> -EACCES
    [] res = "FR_INVALID_OBJECT" -> -ENOENT
    [] res = "FR_WRITE_PROTECTED" -> -EACCES
    [] res = "FR_INVALID_DRIVE" -> -EACCES
    [] res = "FR_NOT_ENABLED" -> -ENOSPC
    [] res = "FR_NO_FILESYSTEM" -> -ENODEV
    [] res = "FR_MKFS_ABORTED" -> -ENODEV
    [] res = "FR_TIMEOUT" -> -EACCES
    [] res = "FR_LOCKED" -> -EACCES
    [] res = "FR_NOT_ENOUGH_CORE" -> -ENAMETOOLONG
    [] res = "FR_TOO_MANY_OPEN_FILES" -> -ENFILE
    [] OTHER -> -ENOENT

(***************************************************************************)
(* Paths and names.  A path is a sequence of characters.                   *)
(***************************************************************************)
RootPath == << "/" >>
Paths == { RootPath, << "/", ".", "x" >> }

\* renameHidden: copy inpath, then turn every '.' that directly follows a
\* '/' into '_' (the loop of lines 89-97, left to right over outpath).
RECURSIVE renameHiddenFrom(_, _)
renameHiddenFrom(outpath, i) ==
  IF i > Len(outpath) THEN outpath
  ELSE IF outpath[i] = "." /\ i > 1 /\ outpath[i - 1] = "/"
       THEN renameHiddenFrom([outpath EXCEPT ![i] = "_"], i + 1)
       ELSE renameHiddenFrom(outpath, i + 1)

renameHidden(inpath) == renameHiddenFrom(inpath, 1)

\* The bytes that follow lpath on the stack, up to the first NUL.
StackTails == { << >>, << "a" >>, << "/", "." >> }

\* The strings renameHidden can leave in lpath.  strncpy writes no NUL when
\* inpath has lpathsz characters or more, so strlen and the loop run on
\* into the bytes behind the buffer.
renameHiddenOutcomes(inpath) ==
  IF Len(inpath) < lpathsz
    THEN { renameHidden(inpath) }
    ELSE { renameHiddenFrom(SubSeq(inpath, 1, lpathsz) \o t, 1) : t \in StackTails }

\* Names the engine stores in the listed directory, in stream order; a
\* name is a sequence of characters.
EngineNames == << << "A" >>, << "_", "B" >>, << "C" >> >>

\* readdir's demangling of an engine name (lines 476-478).
demangle(fname) ==
  IF Len(fname) > 0 /\ fname[1] = "_" THEN [fname EXCEPT ![1] = "."] ELSE fname

(***************************************************************************)
(* Timestamp conversion.  A packed timestamp is a word of 32 bits, bit 0   *)
(* the lowest: a function from 0 .. 31 to {0, 1}.                          *)
(***************************************************************************)
WordBits == 0 .. 31

\* The word of a value of type int that is not negative.
Word(n) == [ i \in WordBits |-> IF i > 30 THEN 0 ELSE (n \div (2 ^ i)) % 2 ]

\* The value of a word whose highest bit is clear.
RECURSIVE WordValFrom(_, _)
WordValFrom(w, i) == IF i > 30 THEN 0 ELSE w[i] + 2 * WordValFrom(w, i + 1)
WordVal(w) == WordValFrom(w, 0)

\* w << k, w >> k, a | b, a & b on 32 bits; what is shifted beyond bit 31 is
\* lost.
Shl(w, k) == [ i \in WordBits |-> IF i >= k THEN w[i - k] ELSE 0 ]
Shr(w, k) == [ i \in WordBits |-> IF i + k <= 31 THEN w[i + k] ELSE 0 ]
BitOr(a, b) == [ i \in WordBits |-> IF a[i] = 1 \/ b[i] = 1 THEN 1 ELSE 0 ]
BitAnd(a, b) == [ i \in WordBits |-> IF a[i] = 1 /\ b[i] = 1 THEN 1 ELSE 0 ]

\* The constant whose bits lo .. hi are set: 0xfe000000 is Mask(25, 31),
\* 0x1e00000 Mask(21, 24), 0x1f0000 Mask(16, 20), 0xf800 Mask(11, 15),
\* 0x7e0 Mask(5, 10), 0x1f Mask(0, 4).
Mask(lo, hi) == [ i \in WordBits |-> IF lo <= i /\ i <= hi THEN 1 ELSE 0 ]

\* unixTimestampToFATTimestamp (lines 171-183).
unixTimestampToFATTimestamp(unixTime) ==
  BitOr(Shl(Word(unixTime.tm_year - 80), 25),
  BitOr(Shl(Word(unixTime.tm_mon + 1), 21),
  BitOr(Shl(Word(unixTime.tm_mday), 16),
  BitOr(Shl(Word(unixTime.tm_hour), 11),
  BitOr(Shl(Word(unixTime.tm_min), 5),
        Shr(Word(unixTime.tm_sec), 1))))))

\* FATTimestampToUNIX (lines 195-207).
FATTimestampToUNIX(fatTimestamp) ==
  [ tm_year |-> WordVal(Shr(BitAnd(fatTimestamp, Mask(25, 31)), 25)) + 80,
    tm_mon |-> WordVal(Shr(BitAnd(fatTimestamp, Mask(21, 24)), 21)) - 1,
    tm_mday |-> WordVal(Shr(BitAnd(fatTimestamp, Mask(16, 20)), 16)),
    tm_hour |-> WordVal(Shr(BitAnd(fatTimestamp, Mask(11, 15)), 11)),
    tm_min |-> WordVal(Shr(BitAnd(fatTimestamp, Mask(5, 10)), 5)),
    tm_sec |-> WordVal(Shr(BitAnd(fatTimestamp, Mask(0, 4)), 1)) ]

\* FATTimestampToDateTime (lines 185-193) and FATDateTimeToUNIX
\* (lines 210-218): the two halves of the word, and the word of two halves.
FATTimestampToDateTime(fatTimestamp) ==
  [ fdate |-> Shr(BitAnd(fatTimestamp, Mask(16, 31)), 16),
    ftime |-> BitAnd(fatTimestamp, Mask(0, 15)) ]
FATDateTimeToUNIX(fdate, ftime) ==
  FATTimestampToUNIX(BitOr(Shl(fdate, 16), ftime))

\* struct tm of a civil time: years since 1900, months from 0.
TmOf(t) ==
  [ tm_year |-> t.year - 1900, tm_mon |-> t.mon - 1, tm_mday |-> t.mday,
    tm_hour |-> t.hour, tm_min |-> t.min, tm_sec |-> t.sec ]

\* The civil times handed to the conversion: the first and the last year
\* of the format, the years around the sign bit of the shift, and the ends
\* and the middle of every field.
CivilTimes ==
  [ year : { 1980, 2021, 2043, 2044, 2107 }, mon : { 1, 6, 12 },
    mday : { 1, 15, 28 }, hour : { 0, 14, 23 }, min : { 0, 30, 59 },
    sec : { 0, 1, 30, 59 } ]

(***************************************************************************)
(* State                                                                   *)
(***************************************************************************)
VARIABLES
  fatfs,       \* the global FATFS pointer: NULL or a context
  nCtx,        \* contexts malloc has handed out so far (they are 1..nCtx)
  ctxLive,     \* contexts allocated and not freed
  mountCalls,  \* f_mount calls made so far
  entries,     \* the engine's entries of the listed directory
  heap,        \* the FIL / DIR objects malloc has handed out (1..Len(heap))
  fh,          \* fi->fh of the caller's directory slot and file slot
  slotState,   \* the caller's view of each slot: unused, open, released
  dirlog,      \* what the listing calls on the open directory did so far
  last,        \* the last completed request: its inputs, calls and result
  pc,          \* SpecMT: where each thread is
  loc          \* SpecMT: each thread's locals

vars == << fatfs, nCtx, ctxLive, mountCalls, entries, heap, fh, slotState,
           dirlog, last, pc, loc >>

mtvars == << pc, loc >>

Slots == { "dir", "file" }
Threads == { "t1", "t2" }


(***************************************************************************)
(* Records of what a request did                                           *)
(***************************************************************************)
\* One call of an engine (or transport) primitive: its name, its result,
\* the path it was given and the object (context, FIL or DIR) it was given.
Call(fn, res, path, obj) == [fn |-> fn, res |-> res, path |-> path, obj |-> obj]

\* One call of the filler callback: the name and position offered, whether
\* the entry came from the engine, and whether the callback took it.
Offer(name, pos, real, ok) == [name |-> name, pos |-> pos, real |-> real, ok |-> ok]

\* struct stat after memset, and as the handlers fill it for a directory
\* and for a regular file.
ZeroStat ==
  [ st_mode |-> "0", st_nlink |-> 0, st_size |-> 0, st_blocks |-> 0,
    st_blksize |-> 0, st_mtime |-> 0 ]
DirStat == [ ZeroStat EXCEPT !.st_mode = "S_IFDIR|0755", !.st_nlink = 2 ]
RegStat(fsize) ==
  [ ZeroStat EXCEPT !.st_mode = "S_IFREG|0644", !.st_nlink = 1, !.st_size = fsize ]

\* The listing history of a directory handle since its opendir.
EmptyLog ==
  [ fresh |-> TRUE,      \* no listing call has read the stream yet
    handed |-> {},       \* <<position, name>> of every entry the callback took
    acc |-> << >>,       \* engine names of the real entries it took, in order
    pend |-> << >>,      \* the real entry the previous call saw rejected
    lastAcc |-> 0,       \* position of the last entry it took
    complete |-> FALSE,  \* a call has seen the end-of-stream entry
    seekOk |-> TRUE,     \* every f_seekdir so far answered FR_OK
    resumed |-> TRUE ]   \* every call so far came with offset = lastAcc

\* Further inputs of a request or of a function: the open flags, an engine
\* result code, a path or name, the metadata f_stat reported.
NoArg ==
  [ fn |-> "none", path |-> << >>, code |-> "FR_OK", flags |-> {},
    finfo |-> [fattrib |-> {}, fsize |-> 0],
    tm |-> [tm_year |-> 0, tm_mon |-> 0, tm_mday |-> 0, tm_hour |-> 0,
            tm_min |-> 0, tm_sec |-> 0],
    ltime |-> 0 ]

\* A completed request.
Done(op, path, offset, ret, calls, offers, out, before, pre) ==
  [ op |-> op, path |-> path, offset |-> offset, ret |-> ret, calls |-> calls,
    offers |-> offers, out |-> out, arg |-> NoArg,
    before |-> before,   \* fatfs, fi->fh and the slot's state when it started
    pre |-> pre ]        \* the handle's listing history when it started

Before(slot) ==
  [ fatfs |-> fatfs, fh |-> IF slot \in Slots THEN fh[slot] ELSE NULL,
    state |-> IF slot \in Slots THEN slotState[slot] ELSE "none" ]

\* Metadata f_stat may report.
FileInfos ==
  { [fattrib |-> {"AM_DIR"}, fsize |-> 0],
    [fattrib |-> {}, fsize |-> 513],
    [fattrib |-> {"AM_ARC"}, fsize |-> 1024] }

(***************************************************************************)
(* The engine, as far as the adapter depends on it                         *)
(***************************************************************************)
\* Results of a primitive on a FIL / DIR object: FatFs validates the object
\* and answers FR_INVALID_OBJECT for one that is not open.
ObjRes(o) == IF heap[o].open THEN EngineRes ELSE { "FR_INVALID_OBJECT" }

\* f_readdir on an open stream at index idx: the next entry, or the empty
\* name at the end of the stream.
ReadName(idx) == IF idx < Len(entries) THEN entries[idx + 1] ELSE << >>
ReadIdx(idx) == IF idx < Len(entries) THEN idx + 1 ELSE idx

\* f_seekdir(dir, -1): the stream moves back by one entry.
f_seekdir(idx, res) == IF res = "FR_OK" /\ idx > 0 THEN idx - 1 ELSE idx

(***************************************************************************)
(* Mount manager                                                           *)
(***************************************************************************)
\* What malloc and f_mount answer, where _lazy_mount gets to ask them.
MountIn ==
  IF fatfs # NULL THEN { [allocOk |-> TRUE, mres |-> "FR_OK"] }
  ELSE { [allocOk |-> FALSE, mres |-> "FR_OK"] }
       \cup { [allocOk |-> TRUE, mres |-> r] : r \in EngineRes }

\* A request that may have to mount needs a context left in the budget.
CanMount == fatfs # NULL \/ nCtx < MaxCtx

\* A mount manager without the test of line 247: it allocates and mounts on
\* every call.
lazy_mount_always(m) ==
  LET c == nCtx + 1 IN
  IF ~m.allocOk
  THEN [ rv |-> FRESULT_TO_OSCODE("FR_DISK_ERR"), fatfs |-> NULL,
         nCtx |-> nCtx, ctxLive |-> ctxLive, mountCalls |-> mountCalls,
         calls |-> << >> ]
  ELSE [ rv |-> FRESULT_TO_OSCODE(m.mres),
         fatfs |-> IF m.mres # "FR_OK" THEN NULL ELSE c,
         nCtx |-> c, ctxLive |-> ctxLive \cup {c},
         mountCalls |-> mountCalls + 1,
         calls |-> << Call("f_mount", m.mres, << >>, c) >> ]

\* _lazy_mount: the mount state after it, its return value and its calls.
lazy_mount(m) ==
  IF fatfs = NULL
  THEN IF ~m.allocOk
       THEN [ rv |-> FRESULT_TO_OSCODE("FR_DISK_ERR"), fatfs |-> NULL,
              nCtx |-> nCtx, ctxLive |-> ctxLive, mountCalls |-> mountCalls,
              calls |-> << >> ]
       ELSE LET c == nCtx + 1 IN
            IF m.mres # "FR_OK"
            THEN [ rv |-> FRESULT_TO_OSCODE(m.mres), fatfs |-> NULL,
                   nCtx |-> c, ctxLive |-> ctxLive \cup {c},
                   mountCalls |-> mountCalls + 1,
                   calls |-> << Call("f_mount", m.mres, << >>, c) >> ]
            ELSE [ rv |-> FRESULT_TO_OSCODE("FR_OK"), fatfs |-> c,
                   nCtx |-> c, ctxLive |-> ctxLive \cup {c},
                   mountCalls |-> mountCalls + 1,
                   calls |-> << Call("f_mount", m.mres, << >>, c) >> ]
  ELSE [ rv |-> FRESULT_TO_OSCODE("FR_OK"), fatfs |-> fatfs, nCtx |-> nCtx,
         ctxLive |-> ctxLive, mountCalls |-> mountCalls, calls |-> << >> ]

\* The mount state a request leaves that did nothing but LAZY_MOUNT.
SetMount(lm) ==
  /\ fatfs' = lm.fatfs
  /\ nCtx' = lm.nCtx
  /\ ctxLive' = lm.ctxLive
  /\ mountCalls' = lm.mountCalls

mountvars == << fatfs, nCtx, ctxLive, mountCalls >>
handlevars == << heap, fh, slotState, dirlog >>

(***************************************************************************)
(* Handlers on paths                                                       *)
(***************************************************************************)
maxtries == 1

\* What f_stat answers: a result the environment draws, or no such file.
StatRes == EngineRes \cup { "FR_NO_FILE" }

\* A lookup that retries at once, without the delay of line 310.
RECURSIVE fstat_retry_nodelay(_, _, _, _)
fstat_retry_nodelay(lpath, ntries, rs, calls) ==
  LET res == rs[ntries + 1]
      calls1 == Append(calls, Call("f_stat", res, lpath, NULL))
  IN IF res # "FR_OK" /\ ntries < maxtries
     THEN fstat_retry_nodelay(lpath, ntries + 1, rs, calls1)
     ELSE [ res |-> res, calls |-> calls1 ]

\* A lookup without the retry: one f_stat call.
fstat_once(lpath, ntries, rs, calls) ==
  [ res |-> rs[ntries + 1],
    calls |-> Append(calls, Call("f_stat", rs[ntries + 1], lpath, NULL)) ]

\* The retry loop of getattr (fstat_retry): rs[k] is the result of the k-th
\* f_stat call.
RECURSIVE fstat_retry(_, _, _, _)
fstat_retry(lpath, ntries, rs, calls) ==
  LET res == rs[ntries + 1]
      calls1 == Append(calls, Call("f_stat", res, lpath, NULL))
  IN IF res # "FR_OK"
     THEN IF ntries >= maxtries
          THEN [ res |-> res, calls |-> calls1 ]
          ELSE fstat_retry(lpath, ntries + 1, rs,
                           Append(calls1, Call("bcm2835_delay", "FR_OK", << >>, 50)))
     ELSE [ res |-> res, calls |-> calls1 ]

\* The attribute record getattr derives from the engine's metadata.
getattr_stat(finfo) ==
  IF "AM_DIR" \in finfo.fattrib THEN DirStat ELSE RegStat(finfo.fsize)

spi_fat_fuse_getattr ==
  /\ CanMount
  /\ \E path \in Paths, m \in MountIn :
       LET lm == lazy_mount(m)
       IN /\ SetMount(lm)
          /\ IF lm.rv # 0
             THEN last' = Done("getattr", path, 0, lm.rv, lm.calls, << >>, ZeroStat,
                               Before("none"), EmptyLog)
             ELSE IF path = RootPath
             THEN last' = Done("getattr", path, 0, 0, lm.calls, << >>, DirStat,
                               Before("none"), EmptyLog)
             ELSE \E rs \in [1 .. maxtries + 1 -> StatRes] :
                    LET st == fstat_retry(renameHidden(path), 0, rs, lm.calls)
                    IN IF st.res # "FR_OK"
                       THEN last' = Done("getattr", path, 0, FRESULT_TO_OSCODE(st.res),
                                         st.calls, << >>, ZeroStat, Before("none"),
                                         EmptyLog)
                       ELSE \E finfo \in FileInfos :
                              last' = [ Done("getattr", path, 0, 0, st.calls, << >>,
                                             getattr_stat(finfo), Before("none"),
                                             EmptyLog)
                                        EXCEPT !.arg.fn = "f_stat",
                                               !.arg.finfo = finfo ]
  /\ UNCHANGED << entries, handlevars, mtvars >>

spi_fat_fuse_setxattr ==
  /\ CanMount
  /\ \E m \in MountIn :
       LET lm == lazy_mount(m)
       IN /\ SetMount(lm)
          /\ last' = Done("setxattr", << >>, 0, lm.rv, lm.calls, << >>, ZeroStat,
                          Before("none"), EmptyLog)
  /\ UNCHANGED << entries, handlevars, mtvars >>

\* mkdir and rmdir: LAZY_MOUNT, then the engine primitive on the host path.
PathOpMounted(op, fn) ==
  /\ CanMount
  /\ \E path \in Paths, m \in MountIn :
       LET lm == lazy_mount(m)
       IN /\ SetMount(lm)
          /\ IF lm.rv # 0
             THEN last' = Done(op, path, 0, lm.rv, lm.calls, << >>, ZeroStat,
                               Before("none"), EmptyLog)
             ELSE \E res \in EngineRes :
                    last' = Done(op, path, 0, FRESULT_TO_OSCODE(res),
                                 Append(lm.calls, Call(fn, res, path, NULL)), << >>,
                                 ZeroStat, Before("none"), EmptyLog)
  /\ UNCHANGED << entries, handlevars, mtvars >>

spi_fat_fuse_mkdir == PathOpMounted("mkdir", "f_mkdir")

spi_fat_fuse_rmdir == PathOpMounted("rmdir", "f_rmdir")

\* unlink and utimens: the engine primitive on the host path, no LAZY_MOUNT.
PathOpDirect(op, fn) ==
  /\ \E path \in Paths, res \in EngineRes :
       last' = Done(op, path, 0, FRESULT_TO_OSCODE(res),
                    << Call(fn, res, path, NULL) >>, << >>, ZeroStat,
                    Before("none"), EmptyLog)
  /\ UNCHANGED << mountvars, entries, handlevars, mtvars >>

spi_fat_fuse_unlink == PathOpDirect("unlink", "f_unlink")

spi_fat_fuse_utimens == PathOpDirect("utimens", "f_utime")

\* A handler that reports the request as not supported.
Nop_refused(op) ==
  /\ last' = Done(op, << >>, 0, -ENOENT, << >>, << >>, ZeroStat, Before("none"),
                  EmptyLog)
  /\ UNCHANGED << mountvars, entries, handlevars, mtvars >>

\* chmod, chown and truncate: no-ops that report success.
Nop(op) ==
  /\ last' = Done(op, << >>, 0, FRESULT_TO_OSCODE("FR_OK"), << >>, << >>,
                  ZeroStat, Before("none"), EmptyLog)
  /\ UNCHANGED << mountvars, entries, handlevars, mtvars >>

spi_fat_fuse_chmod == Nop("chmod")

spi_fat_fuse_chown == Nop("chown")

spi_fat_fuse_truncate == Nop("truncate")

(***************************************************************************)
(* Directory handlers                                                      *)
(***************************************************************************)
NewObj(kind, open) ==
  [ kind |-> kind, mem |-> "live", open |-> open, idx |-> 0,
    ctx |-> fatfs, closes |-> 0 ]

\* free(dir): the block is gone, and so is what it held.
Freed(obj) ==
  [ obj EXCEPT !.mem = "freed", !.open = FALSE, !.idx = 0, !.ctx = NULL,
               !.closes = @ + 1 ]

\* What fi->fh holds after the engine's open of a new object answered res
\* (lines 365-370, 553-559).
open_fh_always(res, obj) == obj

open_fh(res, obj) == IF res # "FR_OK" THEN NULL ELSE obj

\* A slot takes a new open once the caller is through with the previous one;
\* the dispatcher hands the handler a fresh fuse_file_info (fh = 0).
CanOpen(slot) == slotState[slot] # "open" /\ Len(heap) < MaxObj

spi_fat_fuse_opendir ==
  /\ CanMount
  /\ CanOpen("dir")
  /\ \E path \in Paths, m \in MountIn :
       LET lm == lazy_mount(m)
           dir == Len(heap) + 1
       IN /\ SetMount(lm)
          /\ IF lm.rv # 0
             THEN /\ heap' = heap
                  /\ fh' = [fh EXCEPT !["dir"] = NULL]
                  /\ slotState' = [slotState EXCEPT !["dir"] = "unused"]
                  /\ last' = Done("opendir", path, 0, lm.rv, lm.calls, << >>,
                                  ZeroStat, Before("dir"), EmptyLog)
             ELSE \E res \in EngineRes :
                    /\ heap' = Append(heap, [ NewObj("DIR", res = "FR_OK")
                                               EXCEPT !.ctx = lm.fatfs ])
                    /\ fh' = [fh EXCEPT !["dir"] = open_fh(res, dir)]
                    /\ slotState' =
                         [slotState EXCEPT !["dir"] =
                            IF res # "FR_OK" THEN "unused" ELSE "open"]
                    /\ last' = Done("opendir", path, 0, FRESULT_TO_OSCODE(res),
                                    Append(lm.calls, Call("f_opendir", res, path, dir)),
                                    << >>, ZeroStat, Before("dir"), EmptyLog)
          /\ dirlog' = EmptyLog
  /\ UNCHANGED << entries, mtvars >>

\* A listing without lines 411-421: no synthetic entries.
synthetic_none(offset, a1, a2) == << >>

\* Synthetic entries numbered from the offset itself: '.' at position 0.
synthetic_from_zero(offset, a1, a2) ==
  IF offset = 0
  THEN << Offer(<< "." >>, offset, FALSE, a1),
          Offer(<< ".", "." >>, offset + 1, FALSE, a2) >>
  ELSE << >>

\* The two synthetic entries of a listing that starts at offset 0
\* (lines 411-421); a1 and a2 are the callback's answers.
synthetic(offset, a1, a2) ==
  IF offset = 0
  THEN << Offer(<< "." >>, offset + 1, FALSE, a1),
          Offer(<< ".", "." >>, offset + 2, FALSE, a2) >>
  ELSE << >>

SyntheticOffers(offset) ==
  IF offset = 0
  THEN { synthetic(offset, a1, a2) : a1 \in BOOLEAN, a2 \in BOOLEAN }
  ELSE { << >> }

\* The loop of readdir (lines 439-497) entered with finfo.fname = name, the
\* stream at idx and the position counter at nf: every way it can end, for
\* every answer of the callback and every result of the engine.
RECURSIVE readdir_loop(_, _, _, _, _, _)
readdir_loop(dir, name, idx, nf, offers, calls) ==
  IF name = << >>
  THEN { [ rv |-> "FR_OK", idx |-> idx, offers |-> offers, calls |-> calls,
           eos |-> TRUE ] }
  ELSE { [ rv |-> "FR_OK", idx |-> f_seekdir(idx, sk),
           offers |-> Append(offers, Offer(demangle(name), nf, TRUE, FALSE)),
           calls |-> Append(calls, Call("f_seekdir", sk, << >>, dir)),
           eos |-> FALSE ] : sk \in EngineRes }
       \cup
       UNION { LET offers1 == Append(offers, Offer(demangle(name), nf, TRUE, TRUE))
                   calls1 == Append(calls, Call("f_readdir", res, << >>, dir))
               IN IF res # "FR_OK"
                  THEN { [ rv |-> res, idx |-> idx, offers |-> offers1,
                           calls |-> calls1, eos |-> FALSE ] }
                  ELSE readdir_loop(dir, ReadName(idx), ReadIdx(idx), nf + 1,
                                    offers1, calls1)
               : res \in EngineRes }

\* The listing history after a call that got as far as reading the stream.
LogAfter(log, offset, offers, calls, eos) ==
  LET took == SelectSeq(offers, LAMBDA f : f.ok)
      tookReal == SelectSeq(offers, LAMBDA f : f.ok /\ f.real)
      lost == SelectSeq(offers, LAMBDA f : f.real /\ ~f.ok)
  IN [ fresh |-> FALSE,
       handed |-> log.handed \cup { << took[i].pos, took[i].name >> : i \in DOMAIN took },
       acc |-> log.acc \o [ i \in DOMAIN tookReal |-> tookReal[i].name ],
       pend |-> IF lost = << >> THEN << >> ELSE lost[1].name,
       lastAcc |-> IF took = << >> THEN log.lastAcc ELSE took[Len(took)].pos,
       complete |-> log.complete \/ eos,
       seekOk |-> log.seekOk /\ \A i \in DOMAIN calls :
                                  calls[i].fn = "f_seekdir" => calls[i].res = "FR_OK",
       resumed |-> log.resumed /\ offset = log.lastAcc ]

\* The offsets the dispatcher may present: 0, or a position it was handed
\* for an entry of this handle.
Offsets == {0} \cup { p[1] : p \in dirlog.handed }

\* The invalidation of lines 426-433.
invalidate(res, f) == IF res = "FR_DISK_ERR" /\ f # NULL THEN NULL ELSE f
invalidateLive(res, f, live) ==
  IF res = "FR_DISK_ERR" /\ f # NULL THEN live \ {f} ELSE live

spi_fat_fuse_readdir ==
  /\ CanMount
  /\ \E offset \in Offsets, m \in MountIn :
       LET lm == lazy_mount(m)
           dir == fh["dir"]
       IN IF lm.rv # 0
          THEN /\ SetMount(lm)
               /\ last' = Done("readdir", << >>, offset, lm.rv, lm.calls, << >>,
                               ZeroStat, Before("dir"), dirlog)
               /\ UNCHANGED handlevars
          ELSE IF dir = NULL
          THEN /\ SetMount(lm)
               /\ last' = Done("readdir", << >>, offset, -ENOENT, lm.calls, << >>,
                               ZeroStat, Before("dir"), dirlog)
               /\ UNCHANGED handlevars
          ELSE \E syn \in SyntheticOffers(offset), res \in EngineRes :
                 LET nf == offset + 1 + Len(syn)
                     calls1 == Append(lm.calls, Call("f_readdir", res, << >>, dir))
                 IN IF res # "FR_OK"
                    THEN /\ fatfs' = invalidate(res, lm.fatfs)
                         /\ ctxLive' = invalidateLive(res, lm.fatfs, lm.ctxLive)
                         /\ nCtx' = lm.nCtx
                         /\ mountCalls' = lm.mountCalls
                         /\ last' = Done("readdir", << >>, offset,
                                         FRESULT_TO_OSCODE(res), calls1, syn, ZeroStat,
                                         Before("dir"), dirlog)
                         /\ dirlog' = [ LogAfter(dirlog, offset, syn, calls1, FALSE)
                                        EXCEPT !.pend = dirlog.pend ]
                         /\ UNCHANGED << heap, fh, slotState >>
                    ELSE \E o \in readdir_loop(dir, ReadName(heap[dir].idx),
                                               ReadIdx(heap[dir].idx), nf, syn, calls1) :
                           /\ SetMount(lm)
                           /\ heap' = [heap EXCEPT ![dir].idx = o.idx]
                           /\ last' = Done("readdir", << >>, offset,
                                           FRESULT_TO_OSCODE(o.rv), o.calls, o.offers,
                                           ZeroStat, Before("dir"), dirlog)
                           /\ dirlog' = LogAfter(dirlog, offset, o.offers, o.calls, o.eos)
                           /\ UNCHANGED << fh, slotState >>
  /\ UNCHANGED << entries, mtvars >>

spi_fat_fuse_releasedir ==
  /\ LET dir == fh["dir"] IN
     IF dir = NULL
     THEN /\ last' = Done("releasedir", << >>, 0, -ENOENT, << >>, << >>, ZeroStat,
                          Before("dir"), dirlog)
          /\ UNCHANGED handlevars
     ELSE \E res \in ObjRes(dir) :
            /\ heap' = [heap EXCEPT ![dir] = Freed(@)]
            /\ fh' = [fh EXCEPT !["dir"] = NULL]
            /\ slotState' = [slotState EXCEPT !["dir"] = "released"]
            /\ last' = Done("releasedir", << >>, 0, FRESULT_TO_OSCODE(res),
                            << Call("f_closedir", res, << >>, dir) >>, << >>,
                            ZeroStat, Before("dir"), dirlog)
            /\ UNCHANGED dirlog
  /\ UNCHANGED << mountvars, entries, mtvars >>

(***************************************************************************)
(* File handlers                                                           *)
(***************************************************************************)
\* fi->flags: one access mode, and the O_CREAT and O_ASYNC bits.
AccessModes == { "O_RDONLY", "O_WRONLY", "O_RDWR" }
OpenFlags == { {a} \cup b : a \in AccessModes, b \in SUBSET {"O_CREAT", "O_ASYNC"} }

\* The access mode open hands to f_open (lines 531-539).
open_mode(flags) ==
  IF "O_ASYNC" \in flags THEN {"FA_READ"}
  ELSE IF "O_CREAT" \in flags THEN {"FA_WRITE", "FA_CREATE_NEW"}
  ELSE {"FA_READ", "FA_WRITE"}

\* open, and create, which delegates to it.
OpenAs(op) ==
  /\ CanOpen("file")
  /\ \E path \in Paths, flags \in OpenFlags, allocOk \in BOOLEAN :
       LET fp == Len(heap) + 1
           lpath == renameHidden(path)
       IN IF ~allocOk
          THEN /\ heap' = heap
               /\ fh' = [fh EXCEPT !["file"] = NULL]
               /\ slotState' = [slotState EXCEPT !["file"] = "unused"]
               /\ last' = [ Done(op, path, 0, ENOENT, << >>, << >>, open_mode(flags),
                                 Before("file"), EmptyLog)
                            EXCEPT !.arg.fn = "open", !.arg.flags = flags ]
          ELSE \E res \in EngineRes :
                 /\ heap' = Append(heap, NewObj("FIL", res = "FR_OK"))
                 /\ fh' = [fh EXCEPT !["file"] = open_fh(res, fp)]
                 /\ slotState' =
                      [slotState EXCEPT !["file"] =
                         IF res # "FR_OK" THEN "unused" ELSE "open"]
                 /\ last' = [ Done(op, path, 0, FRESULT_TO_OSCODE(res),
                                   << Call("f_open", res, lpath, fp) >>, << >>,
                                   open_mode(flags), Before("file"), EmptyLog)
                              EXCEPT !.arg.fn = "open", !.arg.flags = flags ]
  /\ UNCHANGED << mountvars, entries, dirlog, mtvars >>

spi_fat_fuse_open == OpenAs("open")

spi_fat_fuse_create == OpenAs("create")

spi_fat_fuse_release ==
  /\ LET fp == fh["file"] IN
     IF fp = NULL
     THEN /\ last' = Done("release", << >>, 0, ENOENT, << >>, << >>, ZeroStat,
                          Before("file"), EmptyLog)
          /\ UNCHANGED << heap, slotState >>
     ELSE /\ heap[fp].closes < MaxCloses
          /\ \E res \in ObjRes(fp) :
               /\ heap' = [heap EXCEPT ![fp].open = IF res = "FR_OK" THEN FALSE ELSE @,
                                       ![fp].closes = @ + 1]
               /\ slotState' = [slotState EXCEPT !["file"] = "released"]
               /\ last' = Done("release", << >>, 0, FRESULT_TO_OSCODE(res),
                               << Call("f_close", res, << >>, fp) >>, << >>, ZeroStat,
                               Before("file"), EmptyLog)
  /\ UNCHANGED << mountvars, entries, fh, dirlog, mtvars >>

\* Byte counts asked of read and write.
Sizes == { 0, 3 }

\* A transfer that goes on after a failed seek and returns the count
\* whatever the engine answered.
Transfer_unchecked(op, fn) ==
  /\ \E size \in Sizes :
       LET fp == fh["file"] IN
       IF fp = NULL
       THEN last' = Done(op, << >>, size, ENOENT, << >>, << >>, ZeroStat,
                         Before("file"), EmptyLog)
       ELSE \E r1 \in ObjRes(fp), r2 \in ObjRes(fp), n \in { 0, size } :
              last' = Done(op, << >>, size, n,
                           << Call("f_lseek", r1, << >>, fp), Call(fn, r2, << >>, fp) >>,
                           << >>, ZeroStat, Before("file"), EmptyLog)
  /\ UNCHANGED << mountvars, entries, handlevars, mtvars >>

\* read and write: f_lseek, then the transfer; the count on success.
Transfer(op, fn) ==
  /\ \E size \in Sizes :
       LET fp == fh["file"] IN
       IF fp = NULL
       THEN last' = Done(op, << >>, size, ENOENT, << >>, << >>, ZeroStat,
                         Before("file"), EmptyLog)
       ELSE \E r1 \in ObjRes(fp) :
              LET c1 == << Call("f_lseek", r1, << >>, fp) >> IN
              IF r1 # "FR_OK"
              THEN last' = Done(op, << >>, size, FRESULT_TO_OSCODE(r1), c1, << >>,
                                ZeroStat, Before("file"), EmptyLog)
              ELSE \E r2 \in ObjRes(fp) :
                     LET c2 == Append(c1, Call(fn, r2, << >>, fp)) IN
                     IF r2 # "FR_OK"
                     THEN last' = Done(op, << >>, size, FRESULT_TO_OSCODE(r2), c2,
                                       << >>, ZeroStat, Before("file"), EmptyLog)
                     ELSE \E n \in { 0, size } :
                            last' = Done(op, << >>, size, n, c2, << >>, ZeroStat,
                                         Before("file"), EmptyLog)
  /\ UNCHANGED << mountvars, entries, handlevars, mtvars >>

spi_fat_fuse_read == Transfer("read", "f_read")

spi_fat_fuse_write == Transfer("write", "f_write")

spi_fat_fuse_flush ==
  /\ CanMount
  /\ \E m \in MountIn :
       LET lm == lazy_mount(m)
           fp == fh["file"]
       IN /\ SetMount(lm)
          /\ IF lm.rv # 0
             THEN last' = Done("flush", << >>, 0, lm.rv, lm.calls, << >>, ZeroStat,
                               Before("file"), EmptyLog)
             ELSE IF fp = NULL
             THEN last' = Done("flush", << >>, 0, ENOENT, lm.calls, << >>, ZeroStat,
                               Before("file"), EmptyLog)
             ELSE \E res \in ObjRes(fp) :
                    last' = Done("flush", << >>, 0, FRESULT_TO_OSCODE(res),
                                 Append(lm.calls, Call("f_sync", res, << >>, fp)),
                                 << >>, ZeroStat, Before("file"), EmptyLog)
  /\ UNCHANGED << entries, handlevars, mtvars >>

\* A thread's locals: the request it serves, whether the volume was
\* unmounted when the request came in, whether it is the thread's first
\* request, the context it handed to f_mount, what the engine answered and
\* what the request returned.
NoLocals ==
  [ op |-> "none", unmounted |-> FALSE, first |-> TRUE, ctx |-> NULL,
    res |-> "FR_OK", rv |-> 0 ]

(***************************************************************************)
(* One request at a time                                                   *)
(***************************************************************************)
\* spi_fat_fuse_init leaves fatfs NULL; nothing is open.
Init ==
  /\ fatfs = NULL
  /\ nCtx = 0
  /\ ctxLive = {}
  /\ mountCalls = 0
  /\ entries \in { SubSeq(EngineNames, 1, n) : n \in 0 .. MaxEntries }
  /\ heap = << >>
  /\ fh = [s \in Slots |-> NULL]
  /\ slotState = [s \in Slots |-> "unused"]
  /\ dirlog = EmptyLog
  /\ last = Done("init", << >>, 0, 0, << >>, << >>, ZeroStat, Before("none"), EmptyLog)
  /\ pc = [t \in Threads |-> "idle"]
  /\ loc = [t \in Threads |-> NoLocals]

\* The mount manager and the directory handles.
Next ==
  \/ spi_fat_fuse_getattr
  \/ spi_fat_fuse_setxattr
  \/ spi_fat_fuse_unlink
  \/ spi_fat_fuse_opendir
  \/ spi_fat_fuse_readdir
  \/ spi_fat_fuse_releasedir

Spec == Init /\ [][Next]_vars

\* The requests on paths.
NextPath ==
  \/ spi_fat_fuse_getattr
  \/ spi_fat_fuse_setxattr
  \/ spi_fat_fuse_mkdir
  \/ spi_fat_fuse_rmdir
  \/ spi_fat_fuse_unlink
  \/ spi_fat_fuse_utimens
  \/ spi_fat_fuse_chmod
  \/ spi_fat_fuse_chown
  \/ spi_fat_fuse_truncate

SpecPath == Init /\ [][NextPath]_vars

\* The file handles.
NextFile ==
  \/ spi_fat_fuse_open
  \/ spi_fat_fuse_create
  \/ spi_fat_fuse_release
  \/ spi_fat_fuse_read
  \/ spi_fat_fuse_write
  \/ spi_fat_fuse_flush

SpecFile == Init /\ [][NextFile]_vars

(***************************************************************************)
(* The pure functions on their own: the first state holds an argument, the *)
(* step applies the function to it.                                        *)
(***************************************************************************)
HostChars == { "/", ".", "_", "a" }

\* The absolute paths of at most MaxPathLen characters: the longest do not
\* fit lpath with their terminator.
HostPaths ==
  { q \in UNION { [1 .. n -> HostChars] : n \in 1 .. MaxPathLen } : q[1] = "/" }

\* The result codes handed to the translator: the FRESULT values and a
\* value outside the enumeration.
Codes == FRESULT \cup { "FR_OUT_OF_RANGE" }

\* Index of the last '/' of a path, 0 when it has none.
LastSlash(q) ==
  LET S == { i \in DOMAIN q : q[i] = "/" }
  IN IF S = {} THEN 0 ELSE CHOOSE i \in S : \A j \in S : j <= i

\* The host's view of an engine path: readdir demangles the name of the
\* entry, the final component.
to_host(q) ==
  SubSeq(q, 1, LastSlash(q)) \o demangle(SubSeq(q, LastSlash(q) + 1, Len(q)))

\* The attribute record readdir hands to the callback for a real entry
\* (lines 440-469); ltime is what mktime made of the entry's timestamp.
readdir_stat(finfo, ltime) ==
  IF "AM_DIR" \in finfo.fattrib
  THEN [ ZeroStat EXCEPT !.st_mode = "S_IFDIR|0755", !.st_nlink = 2, !.st_size = 0 ]
  ELSE [ ZeroStat EXCEPT
           !.st_size = finfo.fsize,
           !.st_mode = "S_IFREG|0644",
           !.st_nlink = 1,
           !.st_blocks = (finfo.fsize \div 512)
                           + (IF finfo.fsize % 512 # 0 THEN 1 ELSE 0),
           !.st_blksize = 512,
           !.st_mtime = IF ltime # -1 THEN ltime ELSE 0 ]

\* The metadata of an entry: what f_stat may report, and an empty file.
StatInfos == FileInfos \cup { [fattrib |-> {}, fsize |-> 0] }

\* What mktime answers for the decoded timestamp: no time, or a time.
MkTimes == { -1, 1623767400 }

PureArgs ==
  { [ NoArg EXCEPT !.fn = "renameHidden", !.path = q ] : q \in HostPaths }
  \cup { [ NoArg EXCEPT !.fn = "roundtrip", !.path = q ] : q \in HostPaths }
  \cup { [ NoArg EXCEPT !.fn = "FRESULT_TO_OSCODE", !.code = c ] : c \in Codes }
  \cup { [ NoArg EXCEPT !.fn = "timestamp", !.tm = TmOf(t) ] : t \in CivilTimes }
  \cup { [ NoArg EXCEPT !.fn = "stat", !.finfo = f, !.ltime = l ] :
           f \in StatInfos, l \in MkTimes }

InitPure ==
  /\ fatfs = NULL
  /\ nCtx = 0
  /\ ctxLive = {}
  /\ mountCalls = 0
  /\ entries = << >>
  /\ heap = << >>
  /\ fh = [s \in Slots |-> NULL]
  /\ slotState = [s \in Slots |-> "unused"]
  /\ dirlog = EmptyLog
  /\ \E a \in PureArgs :
       last = [ Done("arg", << >>, 0, 0, << >>, << >>, << >>, Before("none"), EmptyLog)
                EXCEPT !.arg = a ]
  /\ pc = [t \in Threads |-> "idle"]
  /\ loc = [t \in Threads |-> NoLocals]

purevars ==
  << fatfs, nCtx, ctxLive, mountCalls, entries, heap, fh, slotState, dirlog, pc, loc >>

ApplyRenameHidden ==
  /\ last.op = "arg"
  /\ last.arg.fn = "renameHidden"
  /\ \E o \in renameHiddenOutcomes(last.arg.path) :
       last' = [ last EXCEPT !.op = "renameHidden", !.out = o ]
  /\ UNCHANGED purevars

\* An engine path, as the host sees it in a listing, handed back to
\* renameHidden.
ApplyRoundTrip ==
  /\ last.op = "arg"
  /\ last.arg.fn = "roundtrip"
  /\ \E e1 \in renameHiddenOutcomes(last.arg.path) :
       \E e2 \in renameHiddenOutcomes(to_host(e1)) :
         last' = [ last EXCEPT !.op = "roundtrip", !.path = e1, !.out = e2 ]
  /\ UNCHANGED purevars

ApplyTranslate ==
  /\ last.op = "arg"
  /\ last.arg.fn = "FRESULT_TO_OSCODE"
  /\ last' = [ last EXCEPT !.op = "FRESULT_TO_OSCODE",
                           !.ret = FRESULT_TO_OSCODE(last.arg.code) ]
  /\ UNCHANGED purevars

\* The same metadata goes through getattr (lines 315-322) and through
\* readdir (lines 440-469).
ApplyStat ==
  /\ last.op = "arg"
  /\ last.arg.fn = "stat"
  /\ last' = [ last EXCEPT !.op = "stat",
                           !.out = [ getattr |-> getattr_stat(last.arg.finfo),
                                     readdir |-> readdir_stat(last.arg.finfo,
                                                              last.arg.ltime) ] ]
  /\ UNCHANGED purevars

\* A time is packed as utimens packs it (lines 672-679) and decoded as
\* readdir decodes it (line 444).
ApplyTimestamp ==
  /\ last.op = "arg"
  /\ last.arg.fn = "timestamp"
  /\ LET dt == FATTimestampToDateTime(unixTimestampToFATTimestamp(last.arg.tm))
     IN last' = [ last EXCEPT !.op = "timestamp",
                              !.out = FATDateTimeToUNIX(dt.fdate, dt.ftime) ]
  /\ UNCHANGED purevars

NextPure ==
  \/ ApplyRenameHidden
  \/ ApplyRoundTrip
  \/ ApplyTranslate
  \/ ApplyTimestamp
  \/ ApplyStat

SpecPure == InitPure /\ [][NextPure]_vars

\* The life of the handles: the opens and the closes.
NextHandle ==
  \/ spi_fat_fuse_open
  \/ spi_fat_fuse_create
  \/ spi_fat_fuse_opendir
  \/ spi_fat_fuse_release
  \/ spi_fat_fuse_releasedir

SpecHandle == Init /\ [][NextHandle]_vars

(***************************************************************************)
(* Two request threads.  The handlers take no lock, so a thread's steps    *)
(* interleave with the other's at every access to fatfs and around every   *)
(* engine call.  The requests are setxattr (LAZY_MOUNT alone), mkdir       *)
(* (LAZY_MOUNT, then f_mkdir) and unlink (f_unlink alone).                 *)
(***************************************************************************)
MTOps == { "setxattr", "mkdir", "unlink" }

\* A thread at one of these is inside an engine primitive.
EnginePcs ==
  { "in_f_mount", "in_f_mkdir", "in_f_unlink", "in_f_readdir",
    "in_f_readdir_loop", "in_f_seekdir" }

\* memset( NULL, ... ) ends the process, and so does the free of a block
\* that is already free.
Alive == \A t \in Threads : pc[t] \notin { "segv", "double_free" }

seqvars == << entries, heap, fh, slotState, dirlog, last >>

\* The dispatcher hands thread t a request.
MTBegin(t) ==
  /\ Alive
  /\ pc[t] = "idle"
  /\ \E op \in MTOps :
       /\ loc' = [loc EXCEPT ![t] =
                    [ op |-> op, unmounted |-> fatfs = NULL,
                      first |-> loc[t].op = "none", ctx |-> NULL,
                      res |-> "FR_OK", rv |-> 0 ]]
       /\ pc' = [pc EXCEPT ![t] = IF op = "unlink" THEN "call_f_unlink" ELSE "lm_check"]
  /\ UNCHANGED << mountvars, seqvars >>

\* _lazy_mount, line 247: the test of fatfs.
MTLazyCheck(t) ==
  /\ Alive
  /\ pc[t] = "lm_check"
  /\ pc' = [pc EXCEPT ![t] = IF fatfs = NULL THEN "lm_alloc" ELSE "lm_done"]
  /\ loc' = [loc EXCEPT ![t].rv = FRESULT_TO_OSCODE("FR_OK")]
  /\ UNCHANGED << mountvars, seqvars >>

\* line 251: fatfs = malloc( sizeof( FATFS ) ), and the test of line 252.
MTLazyAlloc(t) ==
  /\ Alive
  /\ pc[t] = "lm_alloc"
  /\ nCtx < MaxCtx
  /\ \E allocOk \in BOOLEAN :
       IF allocOk
       THEN /\ fatfs' = nCtx + 1
            /\ nCtx' = nCtx + 1
            /\ ctxLive' = ctxLive \cup { nCtx + 1 }
            /\ pc' = [pc EXCEPT ![t] = "lm_mount"]
            /\ loc' = loc
       ELSE /\ fatfs' = NULL
            /\ UNCHANGED << nCtx, ctxLive >>
            /\ pc' = [pc EXCEPT ![t] = "lm_done"]
            /\ loc' = [loc EXCEPT ![t].rv = FRESULT_TO_OSCODE("FR_DISK_ERR")]
  /\ UNCHANGED << mountCalls, seqvars >>

\* lines 256-258: memset( fatfs, ... ) and the call of f_mount( fatfs, ... ),
\* both on what fatfs holds now.
MTMountCall(t) ==
  /\ Alive
  /\ pc[t] = "lm_mount"
  /\ IF fatfs = NULL
     THEN /\ pc' = [pc EXCEPT ![t] = "segv"]
          /\ UNCHANGED << loc, mountCalls >>
     ELSE /\ pc' = [pc EXCEPT ![t] = "in_f_mount"]
          /\ loc' = [loc EXCEPT ![t].ctx = fatfs]
          /\ mountCalls' = mountCalls + 1
  /\ UNCHANGED << fatfs, nCtx, ctxLive, seqvars >>

\* f_mount returns; lines 259-263.
MTMountReturn(t) ==
  /\ Alive
  /\ pc[t] = "in_f_mount"
  /\ \E res \in EngineRes :
       /\ fatfs' = IF res # "FR_OK" THEN NULL ELSE fatfs
       /\ loc' = [loc EXCEPT ![t].res = res, ![t].rv = FRESULT_TO_OSCODE(res)]
       /\ pc' = [pc EXCEPT ![t] = "lm_done"]
  /\ UNCHANGED << nCtx, ctxLive, mountCalls, seqvars >>

\* LAZY_MOUNT: return lmrv if it is not 0, else go on with the handler.
MTLazyDone(t) ==
  /\ Alive
  /\ pc[t] = "lm_done"
  /\ pc' = [pc EXCEPT ![t] =
              IF loc[t].rv # 0 \/ loc[t].op = "setxattr" THEN "idle"
              ELSE IF loc[t].op = "readdir" THEN "rd_handle"
              ELSE "call_f_mkdir"]
  /\ UNCHANGED << loc, mountvars, seqvars >>

\* The handler enters its engine primitive.
MTEngineCall(t) ==
  /\ Alive
  /\ pc[t] \in { "call_f_mkdir", "call_f_unlink" }
  /\ pc' = [pc EXCEPT ![t] = IF pc[t] = "call_f_mkdir" THEN "in_f_mkdir" ELSE "in_f_unlink"]
  /\ loc' = [loc EXCEPT ![t].ctx = fatfs]
  /\ UNCHANGED << mountvars, seqvars >>

\* The primitive returns and the handler returns its translated result.
MTEngineReturn(t) ==
  /\ Alive
  /\ pc[t] \in { "in_f_mkdir", "in_f_unlink" }
  /\ \E res \in EngineRes :
       loc' = [loc EXCEPT ![t].res = res, ![t].rv = FRESULT_TO_OSCODE(res)]
  /\ pc' = [pc EXCEPT ![t] = "idle"]
  /\ UNCHANGED << mountvars, seqvars >>

NextMT ==
  \E t \in Threads :
    \/ MTBegin(t)
    \/ MTLazyCheck(t)
    \/ MTLazyAlloc(t)
    \/ MTMountCall(t)
    \/ MTMountReturn(t)
    \/ MTLazyDone(t)
    \/ MTEngineCall(t)
    \/ MTEngineReturn(t)

SpecMT == Init /\ [][NextMT]_vars

(***************************************************************************)
(* Two request threads and the invalidation of readdir.  The requests are  *)
(* setxattr (LAZY_MOUNT alone) and readdir on the open directory; the      *)
(* directory is opened by a request that runs alone.                       *)
(***************************************************************************)
InvOps == { "setxattr", "readdir" }

\* An opendir served while no other request is in progress.
OpendirAlone ==
  /\ Alive
  /\ \A t \in Threads : pc[t] = "idle"
  /\ spi_fat_fuse_opendir

MTBeginInv(t) ==
  /\ Alive
  /\ pc[t] = "idle"
  /\ \E op \in InvOps :
       loc' = [loc EXCEPT ![t] =
                 [ op |-> op, unmounted |-> fatfs = NULL,
                   first |-> loc[t].op = "none", ctx |-> NULL,
                   res |-> "FR_OK", rv |-> 0 ]]
  /\ pc' = [pc EXCEPT ![t] = "lm_check"]
  /\ UNCHANGED << mountvars, seqvars >>

\* lines 395-398: dir = (DIR *)fi->fh, and the test of it.
MTReaddirHandle(t) ==
  /\ Alive
  /\ pc[t] = "rd_handle"
  /\ IF fh["dir"] = NULL
     THEN /\ pc' = [pc EXCEPT ![t] = "idle"]
          /\ loc' = [loc EXCEPT ![t].rv = -ENOENT]
     ELSE /\ pc' = [pc EXCEPT ![t] = "call_f_readdir"]
          /\ loc' = loc
  /\ UNCHANGED << mountvars, seqvars >>

\* The thread enters f_readdir (line 423, line 491) or f_seekdir (line 482):
\* the engine works on the volume the directory was opened on.
MTDirCall(t) ==
  /\ Alive
  /\ pc[t] \in { "call_f_readdir", "call_f_readdir_loop", "call_f_seekdir" }
  /\ pc' = [pc EXCEPT ![t] =
              CASE pc[t] = "call_f_readdir" -> "in_f_readdir"
                [] pc[t] = "call_f_readdir_loop" -> "in_f_readdir_loop"
                [] pc[t] = "call_f_seekdir" -> "in_f_seekdir"]
  /\ loc' = [loc EXCEPT ![t].ctx = heap[fh["dir"]].ctx]
  /\ UNCHANGED << mountvars, seqvars >>

\* What the loop does with an entry it has read: the empty name ends the
\* listing, a rejected entry leads to the rewind, an accepted one to the
\* next read.
AfterEntry == { "idle", "call_f_seekdir", "call_f_readdir_loop" }

\* The first f_readdir returns; lines 424-437.
MTReaddirReturn(t) ==
  /\ Alive
  /\ pc[t] = "in_f_readdir"
  /\ \E res \in EngineRes, nxt \in AfterEntry :
       /\ loc' = [loc EXCEPT ![t].res = res, ![t].rv = FRESULT_TO_OSCODE(res)]
       /\ pc' = [pc EXCEPT ![t] =
                   IF res = "FR_DISK_ERR" THEN "inv_check"
                   ELSE IF res # "FR_OK" THEN "idle"
                   ELSE nxt]
  /\ UNCHANGED << mountvars, seqvars >>

\* An f_readdir of the loop returns (lines 491-496), or the f_seekdir of the
\* rewind (lines 482-486), whose result is not returned.
MTLoopReturn(t) ==
  /\ Alive
  /\ pc[t] \in { "in_f_readdir_loop", "in_f_seekdir" }
  /\ \E res \in EngineRes, nxt \in AfterEntry :
       IF pc[t] = "in_f_seekdir"
       THEN /\ loc' = [loc EXCEPT ![t].res = res, ![t].rv = FRESULT_TO_OSCODE("FR_OK")]
            /\ pc' = [pc EXCEPT ![t] = "idle"]
       ELSE /\ loc' = [loc EXCEPT ![t].res = res, ![t].rv = FRESULT_TO_OSCODE(res)]
            /\ pc' = [pc EXCEPT ![t] = IF res # "FR_OK" THEN "idle" ELSE nxt]
  /\ UNCHANGED << mountvars, seqvars >>

\* line 429: the test of fatfs.
MTInvCheck(t) ==
  /\ Alive
  /\ pc[t] = "inv_check"
  /\ pc' = [pc EXCEPT ![t] = IF fatfs # NULL THEN "inv_free" ELSE "idle"]
  /\ UNCHANGED << loc, mountvars, seqvars >>

\* line 430: free( fatfs ), on what fatfs holds now.
MTInvFree(t) ==
  /\ Alive
  /\ pc[t] = "inv_free"
  /\ IF fatfs = NULL \/ fatfs \in ctxLive
     THEN /\ ctxLive' = ctxLive \ { fatfs }
          /\ pc' = [pc EXCEPT ![t] = "inv_clear"]
     ELSE /\ ctxLive' = ctxLive
          /\ pc' = [pc EXCEPT ![t] = "double_free"]
  /\ UNCHANGED << fatfs, nCtx, mountCalls, loc, seqvars >>

\* line 431: fatfs = NULL.
MTInvClear(t) ==
  /\ Alive
  /\ pc[t] = "inv_clear"
  /\ fatfs' = NULL
  /\ pc' = [pc EXCEPT ![t] = "idle"]
  /\ UNCHANGED << nCtx, ctxLive, mountCalls, loc, seqvars >>

NextInv ==
  \/ OpendirAlone
  \/ \E t \in Threads :
       \/ MTBeginInv(t)
       \/ MTLazyCheck(t)
       \/ MTLazyAlloc(t)
       \/ MTMountCall(t)
       \/ MTMountReturn(t)
       \/ MTLazyDone(t)
       \/ MTReaddirHandle(t)
       \/ MTDirCall(t)
       \/ MTReaddirReturn(t)
       \/ MTLoopReturn(t)
       \/ MTInvCheck(t)
       \/ MTInvFree(t)
       \/ MTInvClear(t)

SpecInv == Init /\ [][NextInv]_vars

(***************************************************************************)
(* Vocabulary of the properties                                            *)
(***************************************************************************)
\* The handlers that begin with LAZY_MOUNT, and the handlers that work on
\* the volume.
MountingOps == { "getattr", "setxattr", "mkdir", "rmdir", "opendir", "readdir", "flush" }
VolumeOps == MountingOps \cup { "open", "create", "unlink", "utimens" }

HasCall(r, fn) == \E i \in DOMAIN r.calls : r.calls[i].fn = fn
EngineOk(r) == \A i \in DOMAIN r.calls : r.calls[i].res = "FR_OK"
DiskErr(r) == \E i \in DOMAIN r.calls : r.calls[i].res = "FR_DISK_ERR"
MountFailed(r) ==
  \E i \in DOMAIN r.calls : r.calls[i].fn = "f_mount" /\ r.calls[i].res # "FR_OK"
AllocFailed(r) ==
  r.op \in MountingOps /\ r.before.fatfs = NULL /\ r.calls = << >>
\* The request ran _lazy_mount as far as asking for a context.
MountAttempted(r) == HasCall(r, "f_mount") \/ AllocFailed(r)
DirReadDiskErr(r) ==
  /\ r.op = "readdir"
  /\ \E i \in DOMAIN r.calls :
       r.calls[i].fn = "f_readdir" /\ r.calls[i].res = "FR_DISK_ERR"

\* The directory as the host is to see it, without and with '.' and '..'.
Listing == [ i \in 1 .. Len(entries) |-> demangle(entries[i]) ]
FullListing == << << "." >>, << ".", "." >> >> \o Listing
\* The entries of the full listing that follow the entry named nm.
After(nm) ==
  LET i == CHOOSE k \in 0 .. Len(FullListing) :
             IF \E j \in DOMAIN FullListing : FullListing[j] = nm
             THEN k > 0 /\ FullListing[k] = nm
             ELSE k = 0
  IN SubSeq(FullListing, i + 1, Len(FullListing))
IsPrefix(a, b) == Len(a) <= Len(b) /\ a = SubSeq(b, 1, Len(a))
Names(offers) == [ i \in DOMAIN offers |-> offers[i].name ]
RealOffers(r) == SelectSeq(r.offers, LAMBDA f : f.real)
AllTaken(r) == \A i \in DOMAIN r.offers : r.offers[i].ok
\* A listing call that got as far as reading the stream.
ReadStream(r) == r.op = "readdir" /\ HasCall(r, "f_readdir")
ReadCalls(r) == Len(SelectSeq(r.calls, LAMBDA c : c.fn = "f_readdir"))

\* A thread has returned from its first request, one that runs
\* _lazy_mount and came in while the volume was unmounted, and neither
\* malloc nor the engine failed it.
FirstMountDone(t) ==
  /\ pc[t] = "idle"
  /\ loc[t].op \in { "setxattr", "mkdir" }
  /\ loc[t].first
  /\ loc[t].unmounted
  /\ loc[t].res = "FR_OK"
  /\ loc[t].rv # FRESULT_TO_OSCODE("FR_DISK_ERR")

(***************************************************************************)
(* Properties                                                              *)
(***************************************************************************)
\* C1: when two threads run _lazy_mount concurrently on the unmounted
\* volume, exactly one context is allocated, exactly one f_mount call is
\* made, and both return success with the volume mounted.
C1_OneMountForTwoCallers ==
  (\A t \in Threads : FirstMountDone(t))
    => /\ nCtx = 1
       /\ mountCalls = 1
       /\ fatfs # NULL
       /\ \A t \in Threads : loc[t].rv = 0

\* C2: at most one engine call is in progress at any moment: no two threads
\* are inside engine primitives at the same time.
C2_OneEngineCallAtATime ==
  Cardinality({ t \in Threads : pc[t] \in EnginePcs }) <= 1

\* C3: after any sequence of requests of one thread, at most one allocated
\* mount context exists: every context that was allocated is the current
\* one or has been freed.
C3_OneLiveContext ==
  /\ ctxLive \subseteq { fatfs }
  /\ Cardinality(ctxLive) <= 1

\* C4: when f_mount fails inside _lazy_mount the volume is unmounted
\* afterwards and the request returns the translated negative error with no
\* further engine call; and the next request that works on the volume makes
\* a fresh mount attempt.
C4_MountFailure ==
  [][ /\ MountFailed(last') =>
           /\ fatfs' = NULL
           /\ Len(last'.calls) = 1
           /\ last'.ret = FRESULT_TO_OSCODE(last'.calls[1].res)
           /\ last'.ret < 0
      /\ (MountFailed(last) /\ last'.op \in VolumeOps) => MountAttempted(last')
    ]_vars

\* C5: _lazy_mount is idempotent: on the mounted volume it returns success
\* without allocating a context and without calling f_mount, so the volume
\* stays mounted with the same context until a disk error is reported, and
\* a run with no failure makes its one f_mount call where it starts
\* unmounted.
C5_MountIdempotent ==
  [][ /\ fatfs # NULL =>
           /\ nCtx' = nCtx
           /\ mountCalls' = mountCalls
           /\ ~HasCall(last', "f_mount")
           /\ last'.op = "setxattr" => last'.ret = 0 /\ last'.calls = << >>
           /\ ~DiskErr(last') => fatfs' = fatfs
      /\ (fatfs = NULL /\ last'.op \in MountingOps /\ EngineOk(last')
            /\ ~AllocFailed(last')) =>
           /\ mountCalls' = mountCalls + 1
           /\ nCtx' = nCtx + 1
           /\ fatfs' = nCtx'
    ]_vars

\* C5 witness: a request found the volume mounted, by the one f_mount call
\* made so far, and returned success without mounting.
C5_Witness ==
  /\ last.op = "setxattr"
  /\ last.before.fatfs # NULL
  /\ last.ret = 0
  /\ last.calls = << >>
  /\ mountCalls = 1
  /\ fatfs = last.before.fatfs

\* C6: whenever an f_readdir of a listing call, the first or one in its
\* loop, reports FR_DISK_ERR, the volume is unmounted when the call
\* returns, and the next getattr("/") makes a fresh mount attempt.
C6_DiskErrorUnmounts ==
  [][ /\ DirReadDiskErr(last') => fatfs' = NULL
      /\ (DirReadDiskErr(last) /\ last'.op = "getattr" /\ last'.path = RootPath)
           => MountAttempted(last')
    ]_vars

C8_NoEntryDropped ==
  /\ (dirlog.resumed /\ dirlog.seekOk /\ dirlog.complete)
     => /\ { << "." >>, << ".", "." >> } \subseteq { p[2] : p \in dirlog.handed }
        /\ dirlog.acc = Listing
  /\ fh["dir"] # NULL => heap[fh["dir"]].idx <= Len(dirlog.acc)

\* C9: a position handed out for an entry is a stable resume point: a later
\* call with that offset delivers first the entry that followed it,
\* whatever calls came in between; and a call with offset 0 after a
\* complete listing delivers the whole directory again.
C9_StablePositions ==
  /\ \A h \in last.pre.handed :
       (ReadStream(last) /\ last.offset = h[1] /\ EngineOk(last))
       => IF After(h[2]) = << >>
          THEN last.offers = << >>
          ELSE last.offers # << >> /\ last.offers[1].name = After(h[2])[1]
  /\ ( /\ ReadStream(last)
       /\ last.offset = 0
       /\ last.pre.complete
       /\ EngineOk(last)
       /\ AllTaken(last) )
     => Names(last.offers) = FullListing

\* C10: the engine's close is called exactly once for the object of a
\* handle: a second release or releasedir on the same identifier returns
\* -ENOENT and makes no close call.
C10_CloseOnce ==
  /\ \A o \in DOMAIN heap : heap[o].closes <= 1
  /\ (last.op \in { "release", "releasedir" } /\ last.before.state = "released")
     => /\ last.ret = -ENOENT
        /\ last.calls = << >>

\* The errno values of the error taxonomy.
TaxonomyErrnos ==
  { EINTR, ENOMEM, ENOENT, EACCES, ENOSPC, ENODEV, ENAMETOOLONG, ENFILE }

\* The requests that take a handle identifier, and whether the request ran
\* on an identifier that is not open: never issued, or already closed.
HandleOps == { "read", "write", "flush", "readdir" }
NotOpen(r) == r.before.state # "open"
\* The engine calls of a request other than the mount.
ObjectCalls(r) == SelectSeq(r.calls, LAMBDA c : c.fn # "f_mount")

\* C11: read, write, flush and readdir on an identifier that was never
\* issued or is already closed (a file identifier after its release
\* included) return not-found and make no engine call on the object.
C11_StaleIdentifierRejected ==
  (last.op \in HandleOps /\ NotOpen(last) /\ ~MountFailed(last) /\ ~AllocFailed(last))
    => /\ last.ret = -ENOENT
       /\ ObjectCalls(last) = << >>

\* C12: every request returns a success value (0, or the byte count of a
\* transfer that succeeded) or a negative code of the taxonomy; open whose
\* allocation fails, and read, write, flush and release without a handle,
\* return the negative not-found code.
C12_ReturnValues ==
  /\ last.op # "init" =>
       \/ last.ret = 0
       \/ /\ last.op \in { "read", "write" }
          /\ Len(last.calls) = 2
          /\ EngineOk(last)
          /\ last.ret \in 0 .. last.offset
       \/ -last.ret \in TaxonomyErrnos
  /\ ( /\ last.op \in { "open", "create", "read", "write", "flush", "release" }
       /\ ObjectCalls(last) = << >>
       /\ ~MountFailed(last)
       /\ ~AllocFailed(last) )
     => last.ret = -ENOENT

OpenOps == { "open", "create", "opendir" }
OpenCalls == { "f_open", "f_opendir" }
SlotOf(op) == IF op = "opendir" THEN "dir" ELSE "file"

\* C13: when f_open or f_opendir fails in open, create or opendir, no
\* handle is registered (fi->fh is 0) and the request returns the translated
\* negative error of that engine result.
C13_FailedOpenRegistersNothing ==
  \A i \in DOMAIN last.calls :
    ( /\ last.op \in OpenOps
      /\ last.calls[i].fn \in OpenCalls
      /\ last.calls[i].res # "FR_OK" )
    => /\ fh[SlotOf(last.op)] = NULL
       /\ slotState[SlotOf(last.op)] # "open"
       /\ last.ret = FRESULT_TO_OSCODE(last.calls[i].res)
       /\ last.ret < 0

\* C13 witness: f_opendir failed on the mounted volume and the directory
\* slot holds no handle.
C13_Witness ==
  /\ last.op = "opendir"
  /\ Len(last.calls) = 2
  /\ last.calls[2].fn = "f_opendir"
  /\ last.calls[2].res = "FR_NOT_READY"
  /\ fh["dir"] = NULL
  /\ last.ret = -EINTR

\* C14: no engine object is leaked: once every handle that was opened has
\* been closed with release or releasedir, whatever opens failed, no FIL or
\* DIR object is allocated.
C14_NoObjectLeaked ==
  (\A s \in Slots : slotState[s] # "open")
    => \A o \in DOMAIN heap : heap[o].mem = "freed"

\* The stated policy for the access mode: write + create-new with the
\* create flag, read-only for an exclusively-read access pattern without it,
\* read-write otherwise.
ModePolicy(flags) ==
  IF "O_CREAT" \in flags THEN { "FA_WRITE", "FA_CREATE_NEW" }
  ELSE IF "O_RDONLY" \in flags THEN { "FA_READ" }
  ELSE { "FA_READ", "FA_WRITE" }

\* C15: the access mode open hands to f_open follows the stated policy for
\* every combination of open flags.
C15_AccessModePolicy ==
  (last.op \in { "open", "create" } /\ HasCall(last, "f_open"))
    => last.out = ModePolicy(last.arg.flags)

\* The engine primitives that work on a path, and the requests that call
\* them.
PathCalls == { "f_open", "f_unlink", "f_mkdir", "f_rmdir", "f_utime" }
PathOps == { "open", "create", "unlink", "mkdir", "rmdir", "utimens" }
\* The volume was mounted when the request made its i-th call.
MountedAt(r, i) ==
  \/ r.before.fatfs # NULL
  \/ \E j \in 1 .. i - 1 : r.calls[j].fn = "f_mount" /\ r.calls[j].res = "FR_OK"

\* C16: no engine primitive that works on a path is called while the
\* volume is unmounted: open, create, unlink, mkdir, rmdir and utimens mount
\* the volume first, also after an invalidation.
C16_PathCallsOnMountedVolume ==
  \A i \in DOMAIN last.calls :
    (last.op \in PathOps /\ last.calls[i].fn \in PathCalls) => MountedAt(last, i)

\* C17: every request that takes a host path hands the engine the
\* translated path: unlink, mkdir, rmdir and utimens pass renameHidden(p) as
\* open, create and getattr do.
C17_EnginePathTranslated ==
  \A i \in DOMAIN last.calls :
    ( /\ last.op \in PathOps \cup { "getattr" }
      /\ last.calls[i].fn \in PathCalls \cup { "f_stat" } )
    => last.calls[i].path = renameHidden(last.path)

\* The stated translation: only a '.' that is the first character of the
\* final component becomes '_'.
FinalHidden(q) ==
  LastSlash(q) > 0 /\ LastSlash(q) < Len(q) /\ q[LastSlash(q) + 1] = "."
ToEngineStated(q) ==
  IF FinalHidden(q) THEN [ q EXCEPT ![LastSlash(q) + 1] = "_" ] ELSE q

\* C18: renameHidden replaces '.' by '_' only where it is the first
\* character of the final path component; every other character, a '.' that
\* starts an earlier component included, is copied unchanged, and so is the
\* length.
C18_OnlyFinalComponentMangled ==
  last.op = "renameHidden"
    => /\ last.out = ToEngineStated(last.arg.path)
       /\ Len(last.out) = Len(last.arg.path)

\* C19: for every path whose final component starts with '.', mangling
\* is an idempotent round trip: the engine path e1 that renameHidden makes
\* of p, demangled as readdir does and handed to renameHidden again, gives
\* e1 again.
C19_MangleRoundTrip ==
  (last.op = "roundtrip" /\ FinalHidden(last.arg.path))
    => last.out = last.path

\* The taxonomy table: the error kind of each engine result code, and the
\* errno of each kind.
TaxonomyKind(code) ==
  CASE code \in { "FR_DISK_ERR", "FR_NOT_READY" } -> "Interrupted"
    [] code = "FR_INT_ERR" -> "OutOfMemory"
    [] code \in { "FR_NO_FILE", "FR_NO_PATH", "FR_INVALID_NAME", "FR_INVALID_OBJECT" }
         -> "NotFound"
    [] code \in { "FR_DENIED", "FR_EXIST", "FR_WRITE_PROTECTED", "FR_INVALID_DRIVE",
                  "FR_LOCKED", "FR_TIMEOUT" } -> "AccessDenied"
    [] code = "FR_NOT_ENABLED" -> "NoSpace"
    [] code \in { "FR_NO_FILESYSTEM", "FR_MKFS_ABORTED" } -> "NoDevice"
    [] code = "FR_NOT_ENOUGH_CORE" -> "NameTooLong"
    [] code = "FR_TOO_MANY_OPEN_FILES" -> "TooManyOpenFiles"
    [] OTHER -> "NotFound"
KindErrno(kind) ==
  CASE kind = "Interrupted" -> EINTR
    [] kind = "OutOfMemory" -> ENOMEM
    [] kind = "NotFound" -> ENOENT
    [] kind = "AccessDenied" -> EACCES
    [] kind = "NoSpace" -> ENOSPC
    [] kind = "NoDevice" -> ENODEV
    [] kind = "NameTooLong" -> ENAMETOOLONG
    [] kind = "TooManyOpenFiles" -> ENFILE

\* C20: the translator is total and follows the taxonomy table: FR_OK, and
\* only it, maps to 0; every other code maps to the negative errno of its
\* row; a code outside the table maps to -ENOENT.
C20_TranslatorFollowsTaxonomy ==
  last.op = "FRESULT_TO_OSCODE"
    => /\ last.ret = 0 <=> last.arg.code = "FR_OK"
       /\ last.arg.code # "FR_OK" => last.ret = -KindErrno(TaxonomyKind(last.arg.code))
       /\ last.ret = 0 \/ -last.ret \in TaxonomyErrnos

\* C20 witness: a code outside the enumeration was translated to -ENOENT,
\* the default row.
C20_Witness ==
  /\ last.op = "FRESULT_TO_OSCODE"
  /\ last.arg.code = "FR_OUT_OF_RANGE"
  /\ last.ret = -ENOENT

\* The requests whose engine errors are not to be reported: the getattr
\* retry, and the no-ops.
SwallowingOps == { "getattr", "chmod", "chown", "truncate" }
EngineFailed(r) == \E i \in DOMAIN r.calls : r.calls[i].res # "FR_OK"

\* C21: no engine error is swallowed outside the getattr retry: a request
\* other than getattr, chmod, chown and truncate in which an engine call, the
\* rewind after a rejected entry included, answered a failure returns a
\* negative error code.
C21_NoEngineErrorSwallowed ==
  (last.op \notin SwallowingOps /\ EngineFailed(last)) => last.ret < 0

\* The f_stat calls of a request, and its waits.
StatCalls(r) == SelectSeq(r.calls, LAMBDA c : c.fn = "f_stat")
Delays(r) == SelectSeq(r.calls, LAMBDA c : c.fn = "bcm2835_delay")
\* A getattr on a path other than the root that got as far as f_stat.
Lookup(r) == r.op = "getattr" /\ r.path # RootPath /\ StatCalls(r) # << >>

\* C22: attribute lookup on a non-root path is bounded: it makes at most
\* maxtries + 1 f_stat calls; every failed attempt that is retried is
\* followed by one wait of the fixed delay, and no other wait is made; when
\* every attempt fails it has made maxtries + 1 calls and returns the
\* translated code of the last failure.
C22_LookupRetryBounded ==
  Lookup(last)
    => /\ Len(StatCalls(last)) <= maxtries + 1
       /\ Len(Delays(last)) = Len(StatCalls(last)) - 1
       /\ \A i \in DOMAIN last.calls :
            last.calls[i].fn = "bcm2835_delay"
              => /\ i > 1
                 /\ i < Len(last.calls)
                 /\ last.calls[i - 1].fn = "f_stat"
                 /\ last.calls[i - 1].res # "FR_OK"
                 /\ last.calls[i + 1].fn = "f_stat"
                 /\ last.calls[i].obj = 50
       /\ \A i \in DOMAIN StatCalls(last) :
            i < Len(StatCalls(last)) => StatCalls(last)[i].res # "FR_OK"
       /\ (\A i \in DOMAIN StatCalls(last) : StatCalls(last)[i].res # "FR_OK")
            => /\ Len(StatCalls(last)) = maxtries + 1
               /\ last.ret = FRESULT_TO_OSCODE(StatCalls(last)[maxtries + 1].res)
               /\ last.ret < 0

\* C22 witness: f_stat failed twice with different codes, and the lookup
\* returned the second one after one wait.
C22_Witness ==
  /\ Lookup(last)
  /\ Len(StatCalls(last)) = 2
  /\ StatCalls(last)[1].res = "FR_NOT_READY"
  /\ StatCalls(last)[2].res = "FR_NO_FILE"
  /\ Len(Delays(last)) = 1
  /\ last.ret = -ENOENT

\* C23: when f_stat reports not-ready on the first attempt and success on
\* the next, getattr on a non-root path returns success, and its attribute
\* record is the one a lookup whose first attempt succeeded derives from the
\* same metadata.
C23_TransientFailureRecovered ==
  ( /\ Lookup(last)
    /\ StatCalls(last)[1].res = "FR_NOT_READY"
    /\ \A i \in 2 .. maxtries + 1 :
         i \in DOMAIN StatCalls(last) => StatCalls(last)[i].res = "FR_OK" )
  => /\ last.ret = 0
     /\ StatCalls(last)[Len(StatCalls(last))].res = "FR_OK"
     /\ last.out = getattr_stat(last.arg.finfo)
     /\ last.out # ZeroStat
     /\ \A finfo \in FileInfos :
          finfo = last.arg.finfo
            => last.out = IF "AM_DIR" \in finfo.fattrib THEN DirStat
                          ELSE RegStat(finfo.fsize)

\* C23 witness: the second attempt succeeded on a regular file of 513 bytes.
C23_Witness ==
  /\ Lookup(last)
  /\ Len(StatCalls(last)) = 2
  /\ StatCalls(last)[1].res = "FR_NOT_READY"
  /\ StatCalls(last)[2].res = "FR_OK"
  /\ last.ret = 0
  /\ last.out = RegStat(513)

\* C24: attribute lookup on the root path short-circuits: it returns
\* success with the fixed directory record and never calls f_stat, in every
\* mount state.
C24_RootLookupShortCircuits ==
  (last.op = "getattr" /\ last.path = RootPath)
    => /\ last.ret = 0
       /\ last.out = DirStat
       /\ ~HasCall(last, "f_stat")

NopOps == { "chmod", "chown", "truncate" }

\* C25: chmod, chown and truncate always return success and leave the
\* adapter and the engine as they were: no engine call, the mount state and
\* the handles unchanged.
C25_NopsChangeNothing ==
  [][ last'.op \in NopOps
        => /\ last'.ret = 0
           /\ last'.calls = << >>
           /\ UNCHANGED << mountvars, entries, handlevars >>
    ]_vars

\* C25 witness: a chmod was served on the mounted volume, which it left
\* mounted.
C25_Witness ==
  /\ last.op = "chmod"
  /\ last.before.fatfs # NULL
  /\ fatfs = last.before.fatfs
  /\ last.ret = 0

\* C26: timestamp round trip: decoding the packed form of a civil time
\* gives back its year, month, day, hour and minute, and its seconds
\* rounded down to an even number.
C26_TimestampRoundTrip ==
  last.op = "timestamp"
    => /\ last.out.tm_year = last.arg.tm.tm_year
       /\ last.out.tm_mon = last.arg.tm.tm_mon
       /\ last.out.tm_mday = last.arg.tm.tm_mday
       /\ last.out.tm_hour = last.arg.tm.tm_hour
       /\ last.out.tm_min = last.arg.tm.tm_min
       /\ last.out.tm_sec = last.arg.tm.tm_sec - (last.arg.tm.tm_sec % 2)

\* C27: concurrent invalidation is safe: under every interleaving of two
\* threads no context is released twice, and no context is released while
\* another thread is inside an engine call that works with it.
C27_ConcurrentInvalidationSafe ==
  [][ /\ \A t \in Threads : pc'[t] # "double_free"
      /\ \A t \in Threads :
           (pc[t] \in EnginePcs /\ loc[t].ctx \in ctxLive) => loc[t].ctx \in ctxLive'
    ]_vars

TransferOps == { "read", "write" }
TransferCall(op) == IF op = "read" THEN "f_read" ELSE "f_write"

\* C28: in read and write the seek to the offset comes before the transfer
\* and a failure ends the request: after a failed f_lseek no f_read or
\* f_write is called, and when the seek or the transfer fails the request
\* returns the translated negative error, never the count.
C28_SeekThenTransfer ==
  (last.op \in TransferOps /\ last.calls # << >>)
    => /\ Len(last.calls) <= 2
       /\ last.calls[1].fn = "f_lseek"
       /\ last.calls[1].res # "FR_OK"
            => /\ Len(last.calls) = 1
               /\ last.ret = FRESULT_TO_OSCODE(last.calls[1].res)
               /\ last.ret < 0
       /\ Len(last.calls) = 2
            => /\ last.calls[2].fn = TransferCall(last.op)
               /\ last.calls[2].res # "FR_OK"
                    => /\ last.ret = FRESULT_TO_OSCODE(last.calls[2].res)
                       /\ last.ret < 0
       /\ EngineOk(last) => Len(last.calls) = 2 /\ last.ret \in { 0, last.offset }

\* C28 witness: the seek of a write succeeded and f_write failed on the open
\* file; the request returned the translated error.
C28_Witness ==
  /\ last.op = "write"
  /\ last.before.state = "open"
  /\ Len(last.calls) = 2
  /\ last.calls[1].res = "FR_OK"
  /\ last.calls[2].fn = "f_write"
  /\ last.calls[2].res = "FR_DISK_ERR"
  /\ last.ret = -EINTR

\* The positions handed out with more than one name.
Positions(handed) == { p[1] : p \in handed }
NamesAt(handed, pos) == { p[2] : p \in { q \in handed : q[1] = pos } }

\* C29: the positions readdir hands to the callback are never 0 and go up
\* by 1 from one offered entry to the next: the call with offset k offers
\* its first entry at k + 1, a listing from offset 0 offers '.' at 1, '..'
\* at 2 and the first real entry at 3, and a listing resumed at the position
\* of the last accepted entry goes on from there: no position is skipped
\* and none is handed out for two entries.
C29_PositionsCountUp ==
  /\ last.op = "readdir"
       => /\ \A i \in DOMAIN last.offers :
               /\ last.offers[i].pos = last.offset + i
               /\ last.offers[i].pos > 0
          /\ (last.offset = 0 /\ last.offers # << >>)
               => /\ Len(last.offers) >= 2
                  /\ last.offers[1].name = << "." >> /\ last.offers[1].pos = 1
                  /\ last.offers[2].name = << ".", "." >> /\ last.offers[2].pos = 2
                  /\ \A i \in DOMAIN last.offers : last.offers[i].real <=> i >= 3
          /\ (last.offset = last.pre.lastAcc /\ last.offers # << >>)
               => last.offers[1].pos = last.pre.lastAcc + 1
  /\ \A p \in dirlog.handed : p[1] > 0
  /\ dirlog.resumed
       => \A pos \in Positions(dirlog.handed) :
            Cardinality(NamesAt(dirlog.handed, pos)) = 1

\* C29 witness: a listing from offset 0 took '.', '..' and an entry at 1, 2
\* and 3, and the call resumed at 3 offered the next entry at 4.
C29_Witness ==
  /\ last.op = "readdir"
  /\ last.offset = 3
  /\ last.pre.lastAcc = 3
  /\ { p[1] : p \in last.pre.handed } = { 1, 2, 3 }
  /\ last.offers # << >>
  /\ last.offers[1].pos = 4
  /\ last.offers[1].real
  /\ last.offers[1].ok

\* The engine primitives that work on a FIL or DIR object.
ObjectFns ==
  { "f_readdir", "f_seekdir", "f_closedir", "f_lseek", "f_read", "f_write",
    "f_sync", "f_close" }
\* The contexts that were allocated and have been released.
Released == (1 .. nCtx) \ ctxLive

\* C30: once the mount context has been invalidated, no engine call is made
\* through a handle that was opened under it: a request on such a handle is
\* rejected without reaching the engine, also after a remount.
C30_NoCallThroughStaleHandle ==
  [][ \A i \in DOMAIN last'.calls :
        (last'.calls[i].fn \in ObjectFns /\ last'.calls[i].obj \in DOMAIN heap)
          => heap[last'.calls[i].obj].ctx \notin Released
    ]_vars

\* C31: getattr and the directory listing agree on an entry's attributes:
\* for the same engine metadata, the record getattr returns (kind, size,
\* link count, block count, modification time) is the record readdir
\* delivers for the entry.
C31_LookupAndListingAgree ==
  last.op = "stat"
    => \A f \in { "st_mode", "st_size", "st_nlink", "st_blocks", "st_mtime" } :
         last.out.getattr[f] = last.out.readdir[f]

====
